---- MODULE Spec2Model ----
(***************************************************************************)
(* Model of sugarloaf::Sugarloaf (sugarloaf/src/sugarloaf.rs): the pending *)
(* Rect and Span lists, the run merger of stack(), and the per-frame       *)
(* protocol of render().                                                   *)
(*                                                                         *)
(* Conventions.  f32 values are integers.  A String is a sequence of       *)
(* one-character strings.  An Option<T> is a sequence of length 0 (None)   *)
(* or 1 (Some).  Vec indices are 1-based here, 0-based in the source.      *)
(***************************************************************************)
EXTENDS Integers, Sequences, FiniteSets, TLC

(* ---------------------------------------------------------------------- *)
(* Bounds of the model.                                                    *)
(* ---------------------------------------------------------------------- *)

\* longest row given to stack() in SpecStack
MaxLen == 4

\* longest row given to stack() in Spec
FrameLen == 1

\* number of calls on the Sugarloaf instance in one behaviour of Spec
MaxCalls == 4

(* ---------------------------------------------------------------------- *)
(* Program constants.                                                      *)
(* ---------------------------------------------------------------------- *)

\* the per-cell width of a background Rect: `10. * quantity as f32`
CellWidth == 10

\* the x position of a decoration Rect: `10.`
DecorationX == 10

\* the width of a decoration Rect: `(10.)`
DecorationWidth == 10

\* the base of the y position of a decoration Rect: `(10.) + ...`
DecorationBaseY == 10

\* RepeatedSugar::new(0)
InitialCount == 0

\* layout: the per-cell height at scale 1 and the line height
BaseSugarHeight == 3
LineHeight == 2

(* ---------------------------------------------------------------------- *)
(* Cell model (crate::core::Sugar, SugarStyle, SugarDecoration).           *)
(* ---------------------------------------------------------------------- *)

None == <<>>
Some(v) == <<v>>

Contents == {"a", "b"}
ForegroundColors == {"white", "red"}
BackgroundColors == {"black", "blue"}

SugarStyle ==
    [is_bold : BOOLEAN, is_italic : BOOLEAN, is_bold_italic : BOOLEAN]

\* the style records of the rows: no flag, each flag alone, is_bold with
\* is_italic, and all three flags
StyleFlags ==
    {s \in SugarStyle :
        <<s.is_bold, s.is_italic, s.is_bold_italic>>
            \in {<<FALSE, FALSE, FALSE>>, <<TRUE, FALSE, FALSE>>,
                 <<FALSE, TRUE, FALSE>>, <<FALSE, FALSE, TRUE>>,
                 <<TRUE, TRUE, FALSE>>, <<TRUE, TRUE, TRUE>>}}

Styles == {None} \cup {Some(s) : s \in StyleFlags}

Underline ==
    [relative_position |-> <<0, 1>>, size |-> <<1, 2>>, color |-> "green"]

Decorations == {None, Some(Underline)}

Sugar ==
    [content : Contents,
     foreground_color : ForegroundColors,
     background_color : BackgroundColors,
     style : Styles,
     decoration : Decorations]

BaseSugar ==
    [content |-> "a", foreground_color |-> "white",
     background_color |-> "black", style |-> None, decoration |-> None]

\* number of attributes in which two cells differ
Distance(c, d) ==
    (IF c.content = d.content THEN 0 ELSE 1)
    + (IF c.foreground_color = d.foreground_color THEN 0 ELSE 1)
    + (IF c.background_color = d.background_color THEN 0 ELSE 1)
    + (IF c.style = d.style THEN 0 ELSE 1)
    + (IF c.decoration = d.decoration THEN 0 ELSE 1)

\* the cells rows are made of: the base cell and every cell that differs
\* from it in one attribute
Cells == {c \in Sugar : Distance(c, BaseSugar) <= 1}

\* the cells of the rows of Spec: the base cell, plain and underlined
FrameCells == {BaseSugar, [BaseSugar EXCEPT !.decoration = Some(Underline)]}

(* ---------------------------------------------------------------------- *)
(* Run accumulator (crate::core::RepeatedSugar).  Its code is not part of  *)
(* the sources at hand; it is modelled from the specification's Run        *)
(* Accumulator: "accumulated display content, representative foreground    *)
(* color, run length (count), and a reset-pending flag".                   *)
(* ---------------------------------------------------------------------- *)

\* RepeatedSugar::new(count)
RepeatedSugarNew(count) ==
    [content_str |-> <<>>, foreground_color |-> None,
     count |-> count, reset_on_next |-> FALSE]

\* RepeatedSugar::set(&sugar): "extend the accumulator's length and
\* concatenated content string"
RepeatedSet(repeated, sugar) ==
    [repeated EXCEPT !.content_str = Append(@, sugar.content),
                     !.foreground_color = Some(sugar.foreground_color),
                     !.count = @ + 1]

\* RepeatedSugar::set_reset_on_next()
RepeatedSetResetOnNext(repeated) == [repeated EXCEPT !.reset_on_next = TRUE]

\* RepeatedSugar::reset()
RepeatedReset(repeated) == RepeatedSugarNew(0)

(* ---------------------------------------------------------------------- *)
(* Layout and context (crate::layout::SugarloafLayout, crate::context).    *)
(* Their code is not part of the sources at hand; the derived per-cell     *)
(* height is modelled from the specification's Layout: "derived,           *)
(* device-scale-dependent geometry".                                       *)
(* ---------------------------------------------------------------------- *)

Widths == {80, 40}
Heights == {24}
Scales == {1, 2}
ClearColors == {"black", "grey"}

\* SugarloafLayout::update(): recompute the derived fields
LayoutUpdate(l) == [l EXCEPT !.sugarheight = BaseSugarHeight * l.scale_factor]

\* SugarloafLayout::resize(width, height)
LayoutResize(l, width, height) == [l EXCEPT !.width = width, !.height = height]

\* SugarloafLayout::rescale(scale)
LayoutRescale(l, scale) == [l EXCEPT !.scale_factor = scale]

InitialLayout ==
    LayoutUpdate([width |-> 80, height |-> 24, scale_factor |-> 1,
                  sugarheight |-> 0, line_height |-> LineHeight,
                  background_color |-> "black", background_image |-> None])

(* ---------------------------------------------------------------------- *)
(* Sugarloaf::stack: the run merger and the Span / Rect emitters.          *)
(* ---------------------------------------------------------------------- *)

\* text::Attrs::new().family("Fira Code"), then weight / style
PlainAttrs == [weight |-> "NORMAL", style |-> "Normal"]

LineTerminator == <<"\n">>

\* Merges without the comparison of the foreground colours (line 236)
MergesMutFg(stack, i) ==
    /\ i < Len(stack)
    /\ stack[i].content = stack[i + 1].content
    /\ stack[i].background_color = stack[i + 1].background_color
    /\ stack[i].decoration = None
    /\ stack[i + 1].decoration = None

\* Merges without the test of the next cell's decoration (line 239)
MergesMutDecoration(stack, i) ==
    /\ i < Len(stack)
    /\ stack[i].content = stack[i + 1].content
    /\ stack[i].foreground_color = stack[i + 1].foreground_color
    /\ stack[i].background_color = stack[i + 1].background_color
    /\ stack[i].decoration = None

\* the condition of lines 234-239: cell i merges with cell i + 1
Merges(stack, i) ==
    /\ i < Len(stack)
    /\ stack[i].content = stack[i + 1].content
    /\ stack[i].foreground_color = stack[i + 1].foreground_color
    /\ stack[i].background_color = stack[i + 1].background_color
    /\ stack[i].decoration = None
    /\ stack[i + 1].decoration = None

\* the quantity without the accumulated count
QuantityMutOne(repeated) == 1

\* lines 248-251
Quantity(repeated) ==
    IF repeated.count > 0 THEN 1 + repeated.count ELSE 1

\* lines 253-257
SugarStr(repeated, sugar) ==
    IF Quantity(repeated) > 1 THEN repeated.content_str ELSE <<sugar.content>>

\* PushSpan with is_bold tested before is_bold_italic
PushSpanMutBoldFirst(ss, sugar_str, style) ==
    IF style # None
    THEN IF style[1].is_bold
         THEN Append(ss, [content |-> sugar_str,
                             attrs |-> [weight |-> "BOLD", style |-> "Normal"]])
         ELSE IF style[1].is_bold_italic
         THEN Append(ss, [content |-> sugar_str,
                             attrs |-> [weight |-> "BOLD", style |-> "Italic"]])
         ELSE IF style[1].is_italic
         THEN Append(ss, [content |-> sugar_str,
                             attrs |-> [weight |-> "NORMAL", style |-> "Italic"]])
         ELSE ss
    ELSE Append(ss, [content |-> sugar_str, attrs |-> PlainAttrs])

\* lines 275-289: the Spans pushed for a finalized run
PushSpan(ss, sugar_str, style) ==
    IF style # None
    THEN IF style[1].is_bold_italic
         THEN Append(ss, [content |-> sugar_str,
                             attrs |-> [weight |-> "BOLD", style |-> "Italic"]])
         ELSE IF style[1].is_bold
         THEN Append(ss, [content |-> sugar_str,
                             attrs |-> [weight |-> "BOLD", style |-> "Normal"]])
         ELSE IF style[1].is_italic
         THEN Append(ss, [content |-> sugar_str,
                             attrs |-> [weight |-> "NORMAL", style |-> "Italic"]])
         ELSE ss
    ELSE Append(ss, [content |-> sugar_str, attrs |-> PlainAttrs])

\* lines 297-302: the background Rect of a finalized run
BackgroundRect(sugar, quantity, l) ==
    [position |-> <<0, 0>>,
     color |-> sugar.background_color,
     size |-> <<CellWidth * quantity, l.sugarheight>>]

\* lines 319-352: the overlay Rect of a decorated cell
DecorationRect(decoration, l) ==
    [position |-> <<DecorationX,
                    DecorationBaseY
                    + decoration.relative_position[2] * l.line_height>>,
     color |-> decoration.color,
     size |-> <<DecorationWidth, l.sugarheight * decoration.size[2]>>]

\* PushRects with the overlay Rect pushed before the background Rect
PushRectsMutOverlayFirst(rs, sugar, quantity, l) ==
    LET withOverlay ==
            IF sugar.decoration # None
            THEN Append(rs, DecorationRect(sugar.decoration[1], l))
            ELSE rs
    IN  Append(withOverlay, BackgroundRect(sugar, quantity, l))

\* lines 297-354: the Rects pushed for a finalized run
PushRects(rs, sugar, quantity, l) ==
    LET withBackground == Append(rs, BackgroundRect(sugar, quantity, l))
    IN  IF sugar.decoration # None
        THEN Append(withBackground, DecorationRect(sugar.decoration[1], l))
        ELSE withBackground

\* lines 230-359: the loop `for i in 0..size`, from index i on.  acc holds
\* the loop's state: the accumulator, the two pending lists, and the record
\* of the runs finalized so far (what each run was and what it appended).
RECURSIVE StackLoop(_, _, _, _)
StackLoop(stack, i, acc, l) ==
    IF i > Len(stack)
    THEN acc
    ELSE IF Merges(stack, i)
    THEN StackLoop(stack, i + 1,
                   [acc EXCEPT !.repeated = RepeatedSet(@, stack[i])], l)
    ELSE LET repeated == RepeatedSetResetOnNext(acc.repeated)
             quantity == Quantity(repeated)
             sugar_str == SugarStr(repeated, stack[i])
             ss == PushSpan(acc.spans, sugar_str, stack[i].style)
             rs == PushRects(acc.rects, stack[i], quantity, l)
             run == [last |-> i,
                     quantity |-> quantity,
                     start_count |-> acc.start_count,
                     start_content |-> acc.start_content,
                     rect_at |-> Len(acc.rects) + 1,
                     nrects |-> Len(rs) - Len(acc.rects),
                     span_at |-> Len(acc.spans) + 1,
                     nspans |-> Len(ss) - Len(acc.spans)]
             next == IF repeated.reset_on_next
                     THEN RepeatedReset(repeated)
                     ELSE repeated
         IN  StackLoop(stack, i + 1,
                       [repeated |-> next, rects |-> rs, spans |-> ss,
                        runs |-> Append(acc.runs, run),
                        start_count |-> next.count,
                        start_content |-> next.content_str],
                       l)

\* stack() without its line 360
PushLineTerminatorMutNone(ss) == ss

\* stack() with its line 360 inside the loop's last iteration as well
PushLineTerminatorMutTwice(ss) ==
    Append(Append(ss, [content |-> LineTerminator, attrs |-> PlainAttrs]),
           [content |-> LineTerminator, attrs |-> PlainAttrs])

\* line 360: the line terminator pushed after the loop
PushLineTerminator(ss) ==
    Append(ss, [content |-> LineTerminator, attrs |-> PlainAttrs])

\* lines 223-368: the pending lists after stack(stack), the Spans given to
\* set_rich_text, and the runs of the row
StackResult(stack, rs, ss, l) ==
    LET done == StackLoop(stack, 1,
                          [repeated |-> RepeatedSugarNew(InitialCount),
                           rects |-> rs, spans |-> ss, runs |-> <<>>,
                           start_count |-> InitialCount,
                           start_content |-> <<>>],
                          l)
        pending == PushLineTerminator(done.spans)
    IN  [rects |-> done.rects, spans |-> pending, buffer |-> pending,
         runs |-> done.runs, repeated |-> done.repeated]

(* ---------------------------------------------------------------------- *)
(* Sugarloaf::render and Sugarloaf::clear: the frame protocol.             *)
(* ---------------------------------------------------------------------- *)

\* wgpu::SurfaceError
SurfaceErrors == {"Timeout", "Outdated", "Lost", "OutOfMemory"}

\* the results of surface.get_current_texture()
Acquisitions == {"Ok"} \cup SurfaceErrors

\* no panic on any acquisition error
IsFatalMutNever(error) == FALSE

\* a panic on every acquisition error
IsFatalMutAny(error) == TRUE

\* lines 525 and 143: `error == wgpu::SurfaceError::OutOfMemory`
IsFatal(error) == error = "OutOfMemory"

\* render() without its lines 449-472
TextStagesMutNone == <<>>

\* lines 449-472: shaping and text preparation, before the acquisition
TextStages == <<"shape_until_scroll", "text_prepare">>

\* the frame submitted right after the clear pass
FrameStagesMutSubmitFirst(background_image) ==
    <<"create_command_encoder", "clear_pass", "submit">>
    \o (IF background_image # None
        THEN <<"layer_prepare", "layer_render">>
        ELSE <<>>)
    \o <<"rect_render", "reset_rects", "reset_spans", "present", "atlas_trim">>

\* lines 476-522: the stages of a frame whose target was acquired
FrameStages(background_image) ==
    <<"create_command_encoder", "clear_pass">>
    \o (IF background_image # None
        THEN <<"layer_prepare", "layer_render">>
        ELSE <<>>)
    \o <<"rect_render", "reset_rects", "reset_spans", "submit", "present",
         "atlas_trim">>

\* lines 117-140: the stages of clear() when the target was acquired
ClearStages ==
    <<"create_command_encoder", "clear_pass", "staging_belt_finish",
      "submit", "present", "staging_belt_recall">>

\* line 516: `self.rects = vec![]`
RectsAfterFrame(rs) == <<>>

\* render() without its line 518
SpansAfterFrameMutKept(ss) == ss

\* line 518: `self.spans = vec![]`
SpansAfterFrame(ss) == <<>>

(* ---------------------------------------------------------------------- *)
(* State.                                                                  *)
(* ---------------------------------------------------------------------- *)

VARIABLES
    rects,      \* Sugarloaf.rects: the pending Rect list
    spans,      \* Sugarloaf.spans: the pending Span list
    buffer,     \* the rich text held by Sugarloaf.editor's buffer
    layout,     \* Sugarloaf.layout
    ctx,        \* Sugarloaf.ctx: size and scale
    pc,         \* "Idle", or "Panicked" once a call has panicked
    calls,      \* number of calls made so far
    op,         \* the last call: its name, and its argument: the row of
                \* stack, the Rects of pile_rects, the colour of
                \* set_background_color (as <<colour>>), <<>> otherwise
    before,     \* the lengths of the pending lists when the last call began
    runs,       \* the runs finalized by the last stack() call
    accumulator,\* the run accumulator when the last stack() call returned
    rows,       \* number of stack() calls since the pending Span list was
                \* last empty
    frame,      \* the last render() / clear() call: acquisition, stages,
                \* the Rect batch given to the rect brush, the clear colour
    origin      \* for each pending Rect: the per-cell height it was computed
                \* from (None when pile_rects supplied it), and whether it
                \* was already pending at an earlier render() call

vars ==
    <<rects, spans, buffer, layout, ctx, pc, calls, op, before, runs,
      accumulator, rows, frame, origin>>

NoFrame ==
    [acquired |-> None, stages |-> <<>>, batch |-> <<>>, origin |-> <<>>,
     shaped |-> <<>>, clear_color |-> None]

\* lines 95-108: Sugarloaf::new
Init ==
    /\ rects = <<>>
    /\ spans = <<>>
    /\ buffer = <<>>
    /\ layout = InitialLayout
    /\ ctx = [size |-> <<80, 24>>, scale |-> 1]
    /\ pc = "Idle"
    /\ calls = 0
    /\ op = [name |-> "new", arg |-> <<>>]
    /\ before = [rects |-> 0, spans |-> 0]
    /\ runs = <<>>
    /\ accumulator = RepeatedSugarNew(InitialCount)
    /\ rows = 0
    /\ frame = NoFrame
    /\ origin = <<>>

\* a call is made on a live instance
Call(name, arg) ==
    /\ pc = "Idle"
    /\ calls < MaxCalls
    /\ calls' = calls + 1
    /\ op' = [name |-> name, arg |-> arg]
    /\ before' = [rects |-> Len(rects), spans |-> Len(spans)]

\* the origin of the Rects a call appended
Origins(n, height) == [k \in 1..n |-> [height |-> height, seen |-> FALSE]]

\* lines 223-368
Stack(stack) ==
    /\ Call("stack", stack)
    /\ \E r \in {StackResult(stack, rects, spans, layout)} :
           /\ rects' = r.rects
           /\ spans' = r.spans
           /\ buffer' = r.buffer
           /\ runs' = r.runs
           /\ accumulator' = r.repeated
           /\ rows' = rows + 1
           /\ origin' = origin \o Origins(Len(r.rects) - Len(rects),
                                          Some(layout.sugarheight))
    /\ UNCHANGED <<layout, ctx, pc, frame>>

\* pile_rects() that puts its Rects in front of the pending ones
PileRectsMutPrepend(instances) ==
    /\ Call("pile_rects", instances)
    /\ rects' = instances \o rects
    /\ origin' = Origins(Len(instances), None) \o origin
    /\ UNCHANGED <<spans, buffer, layout, ctx, pc, runs, accumulator, rows,
                   frame>>

\* lines 402-405
PileRects(instances) ==
    /\ Call("pile_rects", instances)
    /\ rects' = rects \o instances
    /\ origin' = origin \o Origins(Len(instances), None)
    /\ UNCHANGED <<spans, buffer, layout, ctx, pc, runs, accumulator, rows,
                   frame>>

\* lines 196-200
Resize(width, height) ==
    /\ Call("resize", <<>>)
    /\ ctx' = [ctx EXCEPT !.size = <<width, height>>]
    /\ layout' = LayoutUpdate(LayoutResize(layout, width, height))
    /\ UNCHANGED <<rects, spans, buffer, pc, runs, accumulator, rows, frame,
                   origin>>

\* lines 203-207
Rescale(scale) ==
    /\ Call("rescale", <<>>)
    /\ ctx' = [ctx EXCEPT !.scale = scale]
    /\ layout' = LayoutUpdate(LayoutRescale(layout, scale))
    /\ UNCHANGED <<rects, spans, buffer, pc, runs, accumulator, rows, frame,
                   origin>>

\* set_background_color() that drops its argument
WithBackgroundColorMutIgnored(l, color) == l

\* line 382: `self.layout.background_color = color`
WithBackgroundColor(l, color) == [l EXCEPT !.background_color = color]

\* lines 381-384
SetBackgroundColor(color) ==
    /\ Call("set_background_color", <<color>>)
    /\ layout' = WithBackgroundColor(layout, color)
    /\ UNCHANGED <<rects, spans, buffer, ctx, pc, runs, accumulator, rows, frame,
                   origin>>

\* lines 387-399
SetBackgroundImage(image) ==
    /\ Call("set_background_image", <<>>)
    /\ layout' = [layout EXCEPT !.background_image = Some(image)]
    /\ UNCHANGED <<rects, spans, buffer, ctx, pc, runs, accumulator, rows, frame,
                   origin>>

\* lines 448-530.  prepared: whether text_brush.prepare(..) returned Ok (it
\* is unwrapped); acquired: the result of get_current_texture().
Render(prepared, acquired) ==
    /\ Call("render", <<>>)
    /\ IF ~prepared
       THEN /\ pc' = "Panicked"
            /\ frame' = [NoFrame EXCEPT !.stages = TextStages,
                                        !.shaped = buffer]
            /\ UNCHANGED <<rects, spans, rows, origin>>
       ELSE IF acquired = "Ok"
       THEN /\ pc' = "Idle"
            /\ frame' = [acquired |-> Some(acquired),
                         stages |-> TextStages \o <<"get_current_texture">>
                                    \o FrameStages(layout.background_image),
                         batch |-> rects,
                         origin |-> origin,
                         shaped |-> buffer,
                         clear_color |-> Some(layout.background_color)]
            /\ rects' = RectsAfterFrame(rects)
            /\ spans' = SpansAfterFrame(spans)
            /\ rows' = IF spans' = <<>> THEN 0 ELSE rows
            /\ origin' = <<>>
       ELSE /\ pc' = IF IsFatal(acquired) THEN "Panicked" ELSE "Idle"
            /\ frame' = [NoFrame EXCEPT
                           !.acquired = Some(acquired),
                           !.stages = TextStages \o <<"get_current_texture">>,
                           !.shaped = buffer]
            /\ origin' = [k \in 1..Len(origin) |->
                            [origin[k] EXCEPT !.seen = TRUE]]
            /\ UNCHANGED <<rects, spans, rows>>
    /\ UNCHANGED <<buffer, layout, ctx, runs, accumulator>>

\* lines 114-148
Clear(acquired) ==
    /\ Call("clear", <<>>)
    /\ pc' = IF acquired # "Ok" /\ IsFatal(acquired) THEN "Panicked" ELSE "Idle"
    /\ frame' = [NoFrame EXCEPT
                   !.acquired = Some(acquired),
                   !.stages = <<"get_current_texture">>
                              \o (IF acquired = "Ok" THEN ClearStages ELSE <<>>),
                   !.clear_color = IF acquired = "Ok"
                                   THEN Some(layout.background_color)
                                   ELSE None]
    /\ UNCHANGED <<rects, spans, buffer, layout, ctx, runs, accumulator, rows,
                   origin>>

\* what the calling application hands over
PileArguments ==
    {<<>>,
     <<[position |-> <<5, 5>>, color |-> "yellow", size |-> <<10, 7>>]>>,
     <<[position |-> <<5, 5>>, color |-> "yellow", size |-> <<10, 7>>],
       [position |-> <<6, 5>>, color |-> "grey", size |-> <<1, 7>>]>>}

Images == {[path |-> "bg.png", width |-> 80, height |-> 24, x |-> 0, y |-> 0]}

Next ==
    \/ \E size \in 0..FrameLen :
          \E stack \in [1..size -> FrameCells] : Stack(stack)
    \/ \E instances \in PileArguments : PileRects(instances)
    \/ \E width \in Widths, height \in Heights : Resize(width, height)
    \/ \E scale \in Scales : Rescale(scale)
    \/ \E color \in ClearColors : SetBackgroundColor(color)
    \/ \E image \in Images : SetBackgroundImage(image)
    \/ \E prepared \in BOOLEAN, acquired \in Acquisitions :
          Render(prepared, acquired)
    \/ \E acquired \in Acquisitions : Clear(acquired)

Spec == Init /\ [][Next]_vars

\* one stack() call on a fresh instance, over all rows of up to MaxLen cells
StackOnce ==
    /\ op.name = "new"
    /\ \E size \in 0..MaxLen : \E stack \in [1..size -> Cells] : Stack(stack)

SpecStack == Init /\ [][StackOnce]_vars

(* ---------------------------------------------------------------------- *)
(* Vocabulary of the properties.                                           *)
(* ---------------------------------------------------------------------- *)

\* the last call was stack(), and it returned
Stacked == op.name = "stack"

\* the last call was render(), and its acquisition gave `result`
Rendered(result) == op.name = "render" /\ frame.acquired = Some(result)

\* the step is a call of stack()
StackStep == calls' = calls + 1 /\ op'.name = "stack"

Has(stages, stage) == \E k \in DOMAIN stages : stages[k] = stage

\* cells i and j of the row agree in content and in both colours
SameLook(stack, i, j) ==
    /\ stack[i].content = stack[j].content
    /\ stack[i].foreground_color = stack[j].foreground_color
    /\ stack[i].background_color = stack[j].background_color

Undecorated(stack, i) == stack[i].decoration = None

\* cells first..last are a maximal block of adjacent cells that are equal in
\* content and colours and all undecorated
Block(stack, first, last) ==
    /\ 1 <= first /\ first <= last /\ last <= Len(stack)
    /\ \A k \in first..last : Undecorated(stack, k)
    /\ \A k \in first..(last - 1) : SameLook(stack, k, k + 1)
    /\ \/ first = 1
       \/ ~Undecorated(stack, first - 1)
       \/ ~SameLook(stack, first - 1, first)
    /\ \/ last = Len(stack)
       \/ ~Undecorated(stack, last + 1)
       \/ ~SameLook(stack, last, last + 1)

\* the runs of the last stack() call that end within first..last
RunsEndingIn(first, last) ==
    {k \in DOMAIN runs : runs[k].last \in first..last}

Quantities == [k \in DOMAIN runs |-> runs[k].quantity]

Repeat(content, n) == [k \in 1..n |-> content]

IsTerminator(span) == span.content = LineTerminator

(* ---------------------------------------------------------------------- *)
(* C1 .. C4: one stack() call, checked under SpecStack.                    *)
(* ---------------------------------------------------------------------- *)

\* C1: every maximal block of adjacent cells equal in content, foreground
\* and background colour and all undecorated is emitted as exactly one run,
\* whose quantity is the block's length; exactly one Rect is appended for
\* it, a background Rect of width block length * 10.
C1_BlockIsOneRun ==
    Stacked =>
        \A first \in DOMAIN op.arg : \A last \in first..Len(op.arg) :
            Block(op.arg, first, last) =>
                /\ Cardinality(RunsEndingIn(first, last)) = 1
                /\ \A k \in RunsEndingIn(first, last) :
                      /\ runs[k].last = last
                      /\ runs[k].quantity = last - first + 1
                      /\ runs[k].nrects = 1
                      /\ rects[runs[k].rect_at].position = <<0, 0>>
                      /\ rects[runs[k].rect_at].size[1]
                            = CellWidth * (last - first + 1)

\* a row of four equal undecorated cells gave one Rect of width 40
C1_Witness ==
    /\ Stacked
    /\ op.arg = [k \in 1..4 |-> BaseSugar]
    /\ Len(runs) = 1
    /\ Len(rects) = 1
    /\ rects[1].size[1] = 40

\* C2: a decorated cell is always finalized as its own run of quantity 1,
\* and no run spans two adjacent cells of which one is decorated; a row of
\* two otherwise identical cells, exactly one decorated, gives the
\* quantities 1, 1, and four equal cells with only the third decorated give
\* the quantities 2, 1, 1.
C2_DecorationIsolated ==
    Stacked =>
        /\ \A i \in DOMAIN op.arg :
              ~Undecorated(op.arg, i) =>
                  \E k \in DOMAIN runs :
                      runs[k].last = i /\ runs[k].quantity = 1
        /\ \A i \in 1..(Len(op.arg) - 1) :
              (~Undecorated(op.arg, i) \/ ~Undecorated(op.arg, i + 1)) =>
                  \E k \in DOMAIN runs : runs[k].last = i
        /\ (/\ Len(op.arg) = 2
            /\ SameLook(op.arg, 1, 2)
            /\ Undecorated(op.arg, 1) # Undecorated(op.arg, 2))
              => Quantities = <<1, 1>>
        /\ (/\ Len(op.arg) = 4
            /\ \A i \in 1..3 : SameLook(op.arg, i, i + 1)
            /\ \A i \in 1..4 : Undecorated(op.arg, i) <=> i # 3)
              => Quantities = <<2, 1, 1>>

\* four equal cells, only the third underlined: three runs, the second one
\* with its overlay Rect
C2_Witness ==
    /\ Stacked
    /\ op.arg = [k \in 1..4 |->
                     IF k = 3
                     THEN [BaseSugar EXCEPT !.decoration = Some(Underline)]
                     ELSE BaseSugar]
    /\ Quantities = <<2, 1, 1>>
    /\ runs[2].nrects = 2

\* C3: the Span of a finalized run of quantity q holds the run's cell content
\* q times.
C3_SpanContentRepeatsQuantity ==
    Stacked =>
        \A k \in DOMAIN runs :
            runs[k].nspans = 1 =>
                spans[runs[k].span_at].content
                    = Repeat(op.arg[runs[k].last].content, runs[k].quantity)

\* C4: whatever the style of its cell, every finalized run appends exactly
\* one content Span and at least one Rect.
C4_OneSpanPerRun ==
    Stacked =>
        \A k \in DOMAIN runs : runs[k].nspans = 1 /\ runs[k].nrects >= 1

(* ---------------------------------------------------------------------- *)
(* C5 .. C10: sequences of calls, checked under Spec.                      *)
(* ---------------------------------------------------------------------- *)

\* C5 as stated: stack() on a row of length 0 leaves the pending Rect list
\* and the pending Span list as they were.
C5_EmptyRowNoOutput ==
    [][(StackStep /\ op'.arg = <<>>) => (rects' = rects /\ spans' = spans)]_vars

\* C5 as amended: stack() on a row of length 0 finalizes no run and leaves
\* the pending Rect list as it was; the pending Span list gains the row's
\* line terminator and nothing else.
C5_EmptyRowOnlyTerminator ==
    [][(StackStep /\ op'.arg = <<>>) =>
          /\ rects' = rects
          /\ runs' = <<>>
          /\ Len(spans') = Len(spans) + 1
          /\ SubSeq(spans', 1, Len(spans)) = spans
          /\ IsTerminator(spans'[Len(spans')])]_vars

\* an empty row was stacked on top of pending Rects and Spans
C5_Witness ==
    /\ Stacked
    /\ op.arg = <<>>
    /\ before.rects > 0
    /\ before.spans > 0
    /\ Len(rects) = before.rects
    /\ Len(spans) = before.spans + 1

\* C6: every stack() call appends exactly one line terminator Span, after
\* the content Spans of its row; after m stack() calls within a frame the
\* pending Span list holds exactly m line terminators.
C6_OneTerminatorPerRow ==
    /\ [](Cardinality({k \in DOMAIN spans : IsTerminator(spans[k])}) = rows)
    /\ [][StackStep =>
            /\ Len(spans') > Len(spans)
            /\ SubSeq(spans', 1, Len(spans)) = spans
            /\ IsTerminator(spans'[Len(spans')])
            /\ \A k \in (Len(spans) + 1)..(Len(spans') - 1) :
                  ~IsTerminator(spans'[k])]_vars

\* two rows with content were stacked in one frame
C6_Witness ==
    /\ Stacked
    /\ rows = 2
    /\ Len(spans) = 4
    /\ ~IsTerminator(spans[1]) /\ IsTerminator(spans[2])
    /\ ~IsTerminator(spans[3]) /\ IsTerminator(spans[4])

\* C7: after a render() call that acquired its target and presented the
\* frame, both pending lists are empty.
C7_DrainedAfterPresent ==
    (Rendered("Ok") /\ Has(frame.stages, "present")) =>
        (rects = <<>> /\ spans = <<>>)

\* a frame with a background image and three pending Rects was presented
C7_Witness ==
    /\ Rendered("Ok")
    /\ Has(frame.stages, "present")
    /\ Has(frame.stages, "layer_render")
    /\ Len(frame.batch) >= 3
    /\ rects = <<>>
    /\ spans = <<>>

\* C8: no Rect drawn by a render() call was already pending at an earlier
\* render() call.
C8_NoLeakAcrossFrames ==
    Rendered("Ok") =>
        \A k \in DOMAIN frame.origin : ~frame.origin[k].seen

\* C9: every Rect that stack() computed and that a presented frame draws was
\* computed from the per-cell height the layout has at that render() call.
C9_NoStaleGeometry ==
    Rendered("Ok") =>
        \A k \in DOMAIN frame.origin :
            frame.origin[k].height # None =>
                frame.origin[k].height = Some(layout.sugarheight)

\* C10: a render() call whose acquisition fails with an error other than
\* OutOfMemory returns without a panic, with nothing submitted and nothing
\* presented, and the instance takes the next render() call.
C10_RecoverableFrameDropped ==
    \A error \in SurfaceErrors \ {"OutOfMemory"} :
        Rendered(error) =>
            /\ pc = "Idle"
            /\ ~Has(frame.stages, "create_command_encoder")
            /\ ~Has(frame.stages, "submit")
            /\ ~Has(frame.stages, "present")
            /\ calls < MaxCalls => ENABLED Render(TRUE, "Ok")

\* a frame was dropped on a Timeout while Rects were pending
C10_Witness ==
    /\ Rendered("Timeout")
    /\ pc = "Idle"
    /\ Len(rects) > 0
    /\ ~Has(frame.stages, "submit")

(* ---------------------------------------------------------------------- *)
(* C11 .. C16: the frame protocol, checked under Spec.                     *)
(* ---------------------------------------------------------------------- *)

\* the step is a call named `name`
Step(name) == calls' = calls + 1 /\ op'.name = name

\* a stage's number of occurrences and, when it occurs, its first position
Count(stages, stage) == Cardinality({k \in DOMAIN stages : stages[k] = stage})

Pos(stages, stage) ==
    CHOOSE k \in DOMAIN stages :
        /\ stages[k] = stage
        /\ \A j \in 1..(k - 1) : stages[j] # stage

\* stage a occurs once, stage b occurs once, and a comes first
Before(stages, a, b) ==
    /\ Count(stages, a) = 1
    /\ Count(stages, b) = 1
    /\ Pos(stages, a) < Pos(stages, b)

\* C11: a render() call whose acquisition fails with OutOfMemory panics:
\* nothing is encoded, submitted or presented, and no call follows the panic
\* (no retry, no further frame).
C11_OutOfMemoryIsFatal ==
    /\ [](Rendered("OutOfMemory") =>
            /\ pc = "Panicked"
            /\ ~Has(frame.stages, "create_command_encoder")
            /\ ~Has(frame.stages, "submit")
            /\ ~Has(frame.stages, "present"))
    /\ [][pc = "Idle"]_vars

\* render() panicked on OutOfMemory with Rects pending and calls to spare
C11_Witness ==
    /\ Rendered("OutOfMemory")
    /\ pc = "Panicked"
    /\ Len(rects) > 0
    /\ calls < MaxCalls

\* C12: resize(), rescale(), set_background_color() and
\* set_background_image() run no stage of a frame and leave both pending
\* lists unchanged; the colour given to set_background_color() is the
\* layout's background colour until the next set_background_color(), and
\* that colour is the clear colour of every render() that presents a frame.
C12_MutatorsRenderNothing ==
    /\ [][(\E name \in {"resize", "rescale", "set_background_color",
                        "set_background_image"} : Step(name)) =>
            /\ rects' = rects
            /\ spans' = spans
            /\ frame' = frame
            /\ pc' = pc]_vars
    /\ [][Step("set_background_color") =>
            layout'.background_color = op'.arg[1]]_vars
    /\ [][layout'.background_color # layout.background_color =>
            Step("set_background_color")]_vars
    /\ [](Rendered("Ok") =>
            /\ Has(frame.stages, "present")
            /\ frame.clear_color = Some(layout.background_color))

\* a frame with pending Rects was presented and cleared with grey, the
\* colour a set_background_color() call gave (the initial colour is black)
C12_Witness ==
    /\ Rendered("Ok")
    /\ frame.clear_color = Some("grey")
    /\ layout.background_color = "grey"
    /\ Len(frame.batch) > 0

\* C13: in a render() call that acquired its target the stages come in the
\* order clear pass, background image prepare and render (if and only if an
\* image is configured), Rect batch render, submit, present.
C13_StageOrder ==
    Rendered("Ok") =>
        /\ Before(frame.stages, "get_current_texture", "clear_pass")
        /\ Before(frame.stages, "clear_pass", "rect_render")
        /\ Before(frame.stages, "rect_render", "submit")
        /\ Before(frame.stages, "submit", "present")
        /\ frame.clear_color = Some(layout.background_color)
        /\ IF layout.background_image # None
           THEN /\ Before(frame.stages, "clear_pass", "layer_prepare")
                /\ Before(frame.stages, "layer_prepare", "layer_render")
                /\ Before(frame.stages, "layer_render", "rect_render")
           ELSE /\ ~Has(frame.stages, "layer_prepare")
                /\ ~Has(frame.stages, "layer_render")

\* a frame with a background image was presented
C13_Witness ==
    /\ Rendered("Ok")
    /\ layout.background_image # None
    /\ Has(frame.stages, "layer_render")
    /\ Has(frame.stages, "present")

\* C14 as stated: shaping and text preparation happen only in a render()
\* call that acquired its target, after the acquisition and the Rect batch
\* stage and before submit.
C14_TextAfterAcquisition ==
    (/\ op.name = "render"
     /\ \/ Has(frame.stages, "shape_until_scroll")
        \/ Has(frame.stages, "text_prepare")) =>
        /\ frame.acquired = Some("Ok")
        /\ Before(frame.stages, "get_current_texture", "shape_until_scroll")
        /\ Before(frame.stages, "rect_render", "shape_until_scroll")
        /\ Before(frame.stages, "shape_until_scroll", "text_prepare")
        /\ Before(frame.stages, "text_prepare", "submit")

\* C14 as amended: shaping and text preparation are the first two stages of
\* every render() call, before the surface target is requested; a render()
\* call whose acquisition fails has performed both, and no text stage lies
\* between the acquisition and submit.
C14_TextBeforeAcquisition ==
    op.name = "render" =>
        /\ Len(frame.stages) >= 2
        /\ frame.stages[1] = "shape_until_scroll"
        /\ frame.stages[2] = "text_prepare"
        /\ Count(frame.stages, "shape_until_scroll") = 1
        /\ Count(frame.stages, "text_prepare") = 1
        /\ frame.acquired # None =>
              Before(frame.stages, "text_prepare", "get_current_texture")

\* a frame was dropped on a Timeout after its text was shaped and prepared
C14_Witness ==
    /\ Rendered("Timeout")
    /\ frame.shaped # <<>>
    /\ Has(frame.stages, "shape_until_scroll")
    /\ Has(frame.stages, "text_prepare")
    /\ ~Has(frame.stages, "submit")

\* C15: in a frame that render() submits and presents, the staging belt is
\* finished once before submit and recalled once after it.
C15_StagingReclaimed ==
    (Rendered("Ok") /\ Has(frame.stages, "present")) =>
        /\ Before(frame.stages, "staging_belt_finish", "submit")
        /\ Before(frame.stages, "submit", "staging_belt_recall")

IsPrefix(s, t) == Len(s) <= Len(t) /\ SubSeq(t, 1, Len(s)) = s

RunCells(k) == (runs[k].last - runs[k].quantity + 1)..runs[k].last

\* the cell that finalized run k
RunCell(k) == op.arg[runs[k].last]

\* C17: every finalized run appends one background Rect, of the layout's
\* per-cell height and of the background colour of the run's cells; if and
\* only if the finalizing cell is decorated, one overlay Rect follows it
\* immediately, with the decoration's colour, the vertical offset
\* 10 + relative_position.y * line_height and the height per-cell height *
\* size.y.  The call appends (runs + decorated cells) Rects.
C17_RectsOfRun ==
    Stacked =>
        /\ \A k \in DOMAIN runs :
              /\ rects[runs[k].rect_at].position = <<0, 0>>
              /\ rects[runs[k].rect_at].size[2] = layout.sugarheight
              /\ \A i \in RunCells(k) :
                    rects[runs[k].rect_at].color = op.arg[i].background_color
              /\ IF Undecorated(op.arg, runs[k].last)
                 THEN runs[k].nrects = 1
                 ELSE /\ runs[k].nrects = 2
                      /\ rects[runs[k].rect_at + 1].color
                            = RunCell(k).decoration[1].color
                      /\ rects[runs[k].rect_at + 1].position[2]
                            = 10 + RunCell(k).decoration[1].relative_position[2]
                                   * layout.line_height
                      /\ rects[runs[k].rect_at + 1].size[2]
                            = layout.sugarheight
                              * RunCell(k).decoration[1].size[2]
        /\ Len(rects) - before.rects
              = Len(runs)
                + Cardinality({i \in DOMAIN op.arg : ~Undecorated(op.arg, i)})

\* an underlined cell between two runs: background, background, overlay,
\* background
C17_Witness ==
    /\ Stacked
    /\ Len(op.arg) = 3
    /\ Undecorated(op.arg, 1)
    /\ ~Undecorated(op.arg, 2)
    /\ Undecorated(op.arg, 3)
    /\ Len(runs) = 3
    /\ Len(rects) = 4
    /\ rects[3].color = "green"
    /\ rects[3].size[2] = 6

\* C18: the Span of a finalized run is bold and italic if the finalizing
\* cell's is_bold_italic is set; otherwise bold only if is_bold is set;
\* otherwise italic only if is_italic is set; plain if the cell has no style
\* record; and no run has more than one Span.
C18_StylePrecedence ==
    Stacked =>
        \A k \in DOMAIN runs :
            LET style == RunCell(k).style
                attrs == spans[runs[k].span_at].attrs
            IN  /\ runs[k].nspans <= 1
                /\ style = None =>
                      /\ runs[k].nspans = 1
                      /\ attrs = [weight |-> "NORMAL", style |-> "Normal"]
                /\ (style # None /\ style[1].is_bold_italic) =>
                      /\ runs[k].nspans = 1
                      /\ attrs = [weight |-> "BOLD", style |-> "Italic"]
                /\ (style # None /\ ~style[1].is_bold_italic
                    /\ style[1].is_bold) =>
                      /\ runs[k].nspans = 1
                      /\ attrs = [weight |-> "BOLD", style |-> "Normal"]
                /\ (style # None /\ ~style[1].is_bold_italic
                    /\ ~style[1].is_bold /\ style[1].is_italic) =>
                      /\ runs[k].nspans = 1
                      /\ attrs = [weight |-> "NORMAL", style |-> "Italic"]

\* a cell with all three flags set, then a 'b', then a cell with is_bold and
\* is_italic: bold-italic, plain, bold
C18_Witness ==
    /\ Stacked
    /\ Len(op.arg) = 3
    /\ op.arg[1].style
          = Some([is_bold |-> TRUE, is_italic |-> TRUE, is_bold_italic |-> TRUE])
    /\ op.arg[2].content = "b"
    /\ op.arg[3].style
          = Some([is_bold |-> TRUE, is_italic |-> TRUE, is_bold_italic |-> FALSE])
    /\ Len(runs) = 3
    /\ spans[1].attrs = [weight |-> "BOLD", style |-> "Italic"]
    /\ spans[2].attrs = [weight |-> "NORMAL", style |-> "Normal"]
    /\ spans[3].attrs = [weight |-> "BOLD", style |-> "Normal"]

RECURSIVE SumQuantities(_)
SumQuantities(n) == IF n = 0 THEN 0 ELSE runs[n].quantity + SumQuantities(n - 1)

\* C19: the runs partition the row, left to right: the first run starts at
\* the first cell, every run starts right after the previous one, the last
\* run ends at the last cell, and the quantities sum to the row's length;
\* the accumulator is empty at the start of every run and when stack()
\* returns.
C19_RunsPartitionRow ==
    Stacked =>
        /\ SumQuantities(Len(runs)) = Len(op.arg)
        /\ \A k \in DOMAIN runs :
              /\ runs[k].quantity >= 1
              /\ runs[k].last - runs[k].quantity
                    = IF k = 1 THEN 0 ELSE runs[k - 1].last
              /\ runs[k].start_count = 0
              /\ runs[k].start_content = <<>>
        /\ (runs = <<>>) <=> (op.arg = <<>>)
        /\ runs # <<>> => runs[Len(runs)].last = Len(op.arg)
        /\ \A i \in DOMAIN op.arg :
              Cardinality({k \in DOMAIN runs : i \in RunCells(k)}) = 1
        /\ accumulator.count = 0
        /\ accumulator.content_str = <<>>

\* a, a, b, b: two runs of quantity 2
C19_Witness ==
    /\ Stacked
    /\ Len(op.arg) = 4
    /\ Quantities = <<2, 2>>
    /\ runs[1].last = 2
    /\ runs[2].last = 4
    /\ accumulator.count = 0

\* the style that lines 275-289 apply for a cell's style
StyleClass(style) ==
    IF style = None THEN "plain"
    ELSE IF style[1].is_bold_italic THEN "bold-italic"
    ELSE IF style[1].is_bold THEN "bold"
    ELSE IF style[1].is_italic THEN "italic"
    ELSE "no span"

\* C20: every cell of a run has the style (none / bold / italic /
\* bold-italic) of the run's last cell, the one the run's Span is styled by
\* (cells whose style record sets no flag are left aside).
C20_RunHasOneStyle ==
    Stacked =>
        \A k \in DOMAIN runs : \A i \in RunCells(k) :
            (/\ StyleClass(op.arg[i].style) # "no span"
             /\ StyleClass(RunCell(k).style) # "no span")
                => StyleClass(op.arg[i].style) = StyleClass(RunCell(k).style)

(* ---------------------------------------------------------------------- *)
(* C21: the text a render() call shapes, checked under Spec.               *)
(* ---------------------------------------------------------------------- *)

\* C21: the buffer always holds exactly the pending Span list, and every
\* render() call shapes and prepares exactly the Spans pending at the call;
\* a render() call right after a presented frame shapes an empty buffer.
C21_ShapedIsPending ==
    /\ [](buffer = spans)
    /\ [][Step("render") => frame'.shaped = spans]_vars

====
